---- MODULE Spec2Model ----
(***************************************************************************)
(* Model of the spend calculator of copilot_usage (calculator.py) with the *)
(* data it works on (models.py, plans.py, config.py).                      *)
(*                                                                         *)
(* The multipliers of the model are whole numbers of premium requests and  *)
(* money is counted in cents, so that the float arithmetic of the code is  *)
(* exact integer arithmetic here.                                          *)
(***************************************************************************)
EXTENDS Integers, Sequences, FiniteSets, TLC

(***************************************************************************)
(* Bounds of the model.                                                    *)
(***************************************************************************)
\* longest record list handed to the calculator
MaxRecs == 3
\* largest included allowance of a plan
MaxIncluded == 3
\* largest cycle day handed to get_billing_period
MaxCycleDay == 31

\* timestamps of records: ticks; TicksPerDay ticks make a calendar day
Timestamps == {0, 1, 2}
TicksPerDay == 2
\* model families that appear in logs
Models == {"opus", "haiku"}
\* multipliers written in the log (UsageRecord.multiplier is non-negative)
LoggedMultipliers == {2}

(***************************************************************************)
(* models.py                                                               *)
(***************************************************************************)
\* UsageRecord: the fields the calculator reads
UsageRecord == [timestamp : Timestamps, model : Models,
                multiplier : LoggedMultipliers, is_premium : BOOLEAN]

\* Plan: price_monthly, included_premium_reqs, overage_rate, allows_overage
PriceMonthly == 1000
OverageRate == 4
Plan == [price_monthly : {PriceMonthly},
         included_premium_reqs : {0, MaxIncluded},
         overage_rate : {OverageRate},
         allows_overage : BOOLEAN]

\* SpendSummary() as constructed: every numeric field at its default
SpendSummary == [total_calls |-> 0, premium_calls |-> 0,
                 premium_requests_consumed |-> 0, included_used |-> 0,
                 overage_requests |-> 0, overage_cost |-> 0,
                 plan_cost |-> 0, total_estimated_spend |-> 0]

\* the default entry of the model_breakdown defaultdict
NewEntry == [calls |-> 0, premium_reqs |-> 0, overage_reqs |-> 0,
             overage_cost |-> 0, display_name |-> ""]

(***************************************************************************)
(* Multiplier tables handed to the calculator: dicts family -> multiplier. *)
(* In the first "opus" is priced 0 and "haiku" is missing; the second      *)
(* prices both, each differently from the logged multiplier.               *)
(***************************************************************************)
MultiplierTables == { [m \in {"opus"} |-> 0],
                      [m \in {"opus", "haiku"} |-> IF m = "opus" THEN 3 ELSE 1] }

Min(a, b) == IF a <= b THEN a ELSE b
Max(a, b) == IF a >= b THEN a ELSE b

\* dict.get(key, default)
DictGet(d, key, default) == IF key \in DOMAIN d THEN d[key] ELSE default

\* a bug: every record goes to the end, whatever its timestamp
InsertAtEnd(s, r) == Append(s, r)

\* sorted(records, key=lambda r: r.timestamp): a stable sort
RECURSIVE InsertByTimestamp(_, _)
InsertByTimestamp(s, r) ==
    IF s = << >> THEN << r >>
    ELSE IF s[Len(s)].timestamp <= r.timestamp THEN Append(s, r)
    ELSE Append(InsertByTimestamp(SubSeq(s, 1, Len(s) - 1), r), s[Len(s)])

\* a bug: the records are taken in the order of the list
Unsorted(s) == s

RECURSIVE SortedByTimestamp(_)
SortedByTimestamp(s) ==
    IF s = << >> THEN << >>
    ELSE InsertByTimestamp(SortedByTimestamp(SubSeq(s, 1, Len(s) - 1)), s[Len(s)])

VARIABLES
    records,            \* argument: the list of UsageRecords
    plan,               \* argument: the Plan
    multipliers,        \* argument: the multiplier table
    pc,                 \* position of the running call
    sorted_records,     \* calculate_spend: the sorted copy
    i,                  \* index of the next record of the loop
    summary,            \* calculate_spend: the SpendSummary being built
    model_breakdown,    \* calculate_spend: model -> entry
    remaining_included, \* calculate_spend: what is left of the allowance
    daily,              \* calculate_daily_usage: the dict day_key -> DailyUsage,
                        \*   as the list of its values in insertion order
    daily_usage,        \* calculate_daily_usage: the returned list
    billing_cycle_day,  \* get_billing_period: argument
    reference_date,     \* get_billing_period: argument
    period,             \* get_billing_period: the returned (start, end)
    range_start,        \* get_week_ranges: argument start
    range_end,          \* get_week_ranges: argument end
    current,            \* get_week_ranges: start of the next chunk
    weeks,              \* get_week_ranges: the list of (start, end) built
    dir_exists,         \* file system: whether the log directory exists
    files,              \* file system: file name -> items, the files of the directory
    path,               \* log parser: the file name handed to a function
    result,             \* log parser: the value the call returned
    db_usage,           \* cache: the rows of table usage_records, in rowid order
    db_sessions,        \* cache: the rows of table sessions, in rowid order
    db_parsed_files,    \* cache: table parsed_files, filename -> record_count
    batch,              \* cache: the list handed to the last store call
    filename,           \* cache: the file name handed to the last store_records
    stored,             \* cache: the value the last store call returned
    submitted_keys,     \* history: the keys handed to store_records so far
    last_submitted,     \* history: session id -> the last SessionRecord handed in
    force,              \* scan: the --force flag of the running scan
    todo,               \* scan: the log files the loop has still to visit
    parsed_now,         \* history: the files the running scan has parsed
    completed,          \* history: how many scans have finished
    sess_state,         \* parse_sessions: the dict sessions and last_timestamp
    line_no             \* parse_sessions: the position of the loop in the file

spendVars == << sorted_records, summary, model_breakdown, remaining_included >>
dailyVars == << daily, daily_usage >>
argVars == << records, plan, multipliers >>
periodVars == << billing_cycle_day, reference_date, period >>
weekVars == << range_start, range_end, current, weeks >>
\* the variables of the components other than the calculator's spend, daily
\* usage and billing period functions
parseVars == << dir_exists, files, path, result >>
dbVars == << db_usage, db_sessions, db_parsed_files >>
storeVars == << batch, filename, stored, submitted_keys, last_submitted >>
scanVars == << force, todo, parsed_now, completed >>
cacheVars == << dbVars, storeVars, scanVars >>
sessVars == << sess_state, line_no >>
restVars == << weekVars, parseVars, cacheVars, sessVars >>
vars == << records, plan, multipliers, pc, i, sorted_records, summary,
           model_breakdown, remaining_included, daily, daily_usage,
           billing_cycle_day, reference_date, period, restVars >>

\* the variables of get_week_ranges before any call
IdleWeeks ==
    /\ range_start = 0
    /\ range_end = 0
    /\ current = 0
    /\ weeks = << >>

\* the log parser before any call, with no log directory
IdleParse ==
    /\ dir_exists = FALSE
    /\ files = << >>
    /\ path = ""
    /\ result = << >>

\* the cache as __init__ leaves a new database, before any call or scan
IdleCache ==
    /\ db_usage = << >>
    /\ db_sessions = << >>
    /\ db_parsed_files = << >>
    /\ batch = << >>
    /\ filename = ""
    /\ stored = 0
    /\ submitted_keys = {}
    /\ last_submitted = << >>
    /\ force = FALSE
    /\ todo = << >>
    /\ parsed_now = {}
    /\ completed = 0

\* the loop of parse_sessions before any call
IdleSess ==
    /\ sess_state = << >>
    /\ line_no = 0

IdleRest == IdleWeeks /\ IdleParse /\ IdleCache /\ IdleSess

RecordLists == UNION { [1..n -> UsageRecord] : n \in 0..MaxRecs }

Init ==
    /\ records \in RecordLists
    /\ plan \in Plan
    /\ multipliers \in MultiplierTables
    /\ pc = "idle"
    /\ sorted_records = << >>
    /\ i = 0
    /\ summary = SpendSummary
    /\ model_breakdown = << >>
    /\ remaining_included = 0
    /\ daily = << >>
    /\ daily_usage = << >>
    /\ billing_cycle_day = 0
    /\ reference_date = << >>
    /\ period = << >>
    /\ IdleRest

\* calculate_spend, up to the loop
CallSpend ==
    /\ pc = "idle"
    /\ pc' = "spend_loop"
    /\ sorted_records' = SortedByTimestamp(records)
    /\ summary' = [SpendSummary EXCEPT !.plan_cost = plan.price_monthly]
    /\ model_breakdown' = << >>
    /\ remaining_included' = plan.included_premium_reqs
    /\ i' = 1
    /\ UNCHANGED << argVars, dailyVars, periodVars, restVars >>

\* model_breakdown[record.model] of a defaultdict
EntryOf(bd, m) == IF m \in DOMAIN bd THEN bd[m] ELSE NewEntry

\* d[key] = val
DictPut(d, key, val) ==
    [k \in DOMAIN d \cup {key} |-> IF k = key THEN val ELSE d[k]]

\* a bug: a table value of 0 counts as missing (get(...) or record.multiplier)
EffectiveMultiplierOr(table, record) ==
    IF record.model \in DOMAIN table /\ table[record.model] # 0
    THEN table[record.model] ELSE record.multiplier

\* the multiplier a premium record is counted with
EffectiveMultiplier(table, record) == DictGet(table, record.model, record.multiplier)

\* a bug: a record that straddles the allowance is billed as a whole
SplitWholeRecord(remaining, mult) ==
    IF remaining >= mult THEN << remaining - mult, 0 >> ELSE << 0, mult >>

\* the three-way split of one premium record: <<remaining', overage portion>>
SplitAgainstAllowance(remaining, mult) ==
    IF remaining >= mult THEN << remaining - mult, 0 >>
    ELSE IF remaining > 0 THEN << 0, mult - remaining >>
    ELSE << remaining, mult >>

\* a bug: the overage is entered whether or not the plan allows it
BilledOverageAlways(p, portion) == portion

\* the part of the overage portion entered in the breakdown
BilledOverage(p, portion) == IF p.allows_overage THEN portion ELSE 0

\* the loop body for a premium record, after the count of the call
PremiumUpdate(st, record, p, table) ==
    LET mult == EffectiveMultiplier(table, record)
        split == SplitAgainstAllowance(st.remaining_included, mult)
        billed == BilledOverage(p, split[2])
        entry == EntryOf(st.model_breakdown, record.model)
    IN [summary |-> [st.summary EXCEPT
                        !.premium_calls = @ + 1,
                        !.premium_requests_consumed = @ + mult],
        model_breakdown |-> DictPut(st.model_breakdown, record.model,
                     [entry EXCEPT
                        !.calls = @ + 1,
                        !.premium_reqs = @ + mult,
                        !.display_name = record.model,
                        !.overage_reqs = @ + billed,
                        !.overage_cost = @ + billed * p.overage_rate]),
        remaining_included |-> split[1]]

\* a bug: the call is counted after the premium test
ProcessRecordCountLate(st, record, p, table) ==
    IF ~record.is_premium THEN st
    ELSE PremiumUpdate([st EXCEPT !.summary.total_calls = @ + 1], record, p, table)

\* a bug: the premium test is missing
ProcessRecordNoSkip(st, record, p, table) ==
    PremiumUpdate([st EXCEPT !.summary.total_calls = @ + 1], record, p, table)

\* the loop body of calculate_spend
ProcessRecord(st, record, p, table) ==
    LET counted == [st EXCEPT !.summary.total_calls = @ + 1]
    IN IF ~record.is_premium THEN counted
       ELSE PremiumUpdate(counted, record, p, table)

\* one iteration of the loop of calculate_spend
SpendStep ==
    /\ pc = "spend_loop"
    /\ i <= Len(sorted_records)
    /\ LET st == ProcessRecord([summary |-> summary,
                                model_breakdown |-> model_breakdown,
                                remaining_included |-> remaining_included],
                               sorted_records[i], plan, multipliers)
       IN /\ summary' = st.summary
          /\ model_breakdown' = st.model_breakdown
          /\ remaining_included' = st.remaining_included
    /\ i' = i + 1
    /\ UNCHANGED << argVars, pc, sorted_records, dailyVars, periodVars, restVars >>

\* a bug: the allowance counts as used up whatever was consumed
IncludedUsedAll(consumed, included) == included

\* summary.included_used
IncludedUsed(consumed, included) == Min(consumed, included)

\* a bug: the difference is not clamped at 0
OverageRequestsUnclamped(consumed, included) == consumed - included

\* summary.overage_requests
OverageRequests(consumed, included) == Max(0, consumed - included)

\* the summary calculate_spend returns for the summary s the loop left
FinishSummary(s, p) ==
    LET consumed == s.premium_requests_consumed
        overage == OverageRequests(consumed, p.included_premium_reqs)
        cost == IF p.allows_overage THEN overage * p.overage_rate
                ELSE s.overage_cost
    IN [s EXCEPT
          !.included_used = IncludedUsed(consumed, p.included_premium_reqs),
          !.overage_requests = overage,
          !.overage_cost = cost,
          !.total_estimated_spend = p.price_monthly + cost]

\* calculate_spend, after the loop
SpendFinish ==
    /\ pc = "spend_loop"
    /\ i > Len(sorted_records)
    /\ pc' = "spend_done"
    /\ summary' = FinishSummary(summary, plan)
    /\ UNCHANGED << argVars, sorted_records, i, model_breakdown,
                    remaining_included, dailyVars, periodVars, restVars >>

\* the state of calculate_spend after the loop over the first n records
RECURSIVE SpendLoop(_, _, _, _)
SpendLoop(recs, n, p, table) ==
    IF n = 0
    THEN [summary |-> [SpendSummary EXCEPT !.plan_cost = p.price_monthly],
          model_breakdown |-> << >>,
          remaining_included |-> p.included_premium_reqs]
    ELSE ProcessRecord(SpendLoop(recs, n - 1, p, table), recs[n], p, table)

\* calculate_spend(recs, p, table) as one value: the summary with its
\* model_breakdown
CalculateSpend(recs, p, table) ==
    LET st == SpendLoop(SortedByTimestamp(recs), Len(recs), p, table)
    IN [summary |-> FinishSummary(st.summary, p), model_breakdown |-> st.model_breakdown]

\* calculate_spend(records, plan, multipliers), the whole call at one step
SpendCall ==
    /\ pc = "idle"
    /\ LET sorted == SortedByTimestamp(records)
           st == SpendLoop(sorted, Len(sorted), plan, multipliers)
       IN /\ sorted_records' = sorted
          /\ i' = Len(sorted) + 1
          /\ summary' = FinishSummary(st.summary, plan)
          /\ model_breakdown' = st.model_breakdown
          /\ remaining_included' = st.remaining_included
    /\ pc' = "spend_done"
    /\ UNCHANGED << argVars, dailyVars, periodVars, restVars >>

NextOrder == SpendCall

(***************************************************************************)
(* calculate_daily_usage                                                   *)
(***************************************************************************)
\* record.timestamp.strftime("%Y-%m-%d"): the calendar day of a timestamp
DayKey(ts) == ts \div TicksPerDay

\* timestamp.replace(hour=0, minute=0, second=0, microsecond=0)
Midnight(ts) == DayKey(ts) * TicksPerDay

\* DailyUsage(date=...) as constructed
NewDailyUsage(date) == [date |-> date, total_calls |-> 0, premium_calls |-> 0,
                        premium_requests_consumed |-> 0, models_used |-> << >>]

\* the position of day_key in the dict, 0 when it is not a key
RECURSIVE DailyIndex(_, _)
DailyIndex(d, key) ==
    IF d = << >> THEN 0
    ELSE IF DayKey(d[Len(d)].date) = key THEN Len(d)
    ELSE DailyIndex(SubSeq(d, 1, Len(d) - 1), key)

\* sorted(daily.values(), key=lambda d: d.date): a stable sort
RECURSIVE InsertByDate(_, _)
InsertByDate(s, d) ==
    IF s = << >> THEN << d >>
    ELSE IF s[Len(s)].date <= d.date THEN Append(s, d)
    ELSE Append(InsertByDate(SubSeq(s, 1, Len(s) - 1), d), s[Len(s)])

\* a bug: the days are returned in the order of their first record
UnsortedDays(s) == s

RECURSIVE SortedByDate(_)
SortedByDate(s) ==
    IF s = << >> THEN << >>
    ELSE InsertByDate(SortedByDate(SubSeq(s, 1, Len(s) - 1)), s[Len(s)])

\* calculate_daily_usage, up to the loop
CallDaily ==
    /\ pc = "idle"
    /\ pc' = "daily_loop"
    /\ daily' = << >>
    /\ i' = 1
    /\ UNCHANGED << argVars, spendVars, daily_usage, periodVars, restVars >>

\* one iteration of the loop of calculate_daily_usage
DailyStep ==
    /\ pc = "daily_loop"
    /\ i <= Len(records)
    /\ LET record == records[i]
           day_key == DayKey(record.timestamp)
           withDay == IF DailyIndex(daily, day_key) = 0
                      THEN Append(daily, NewDailyUsage(Midnight(record.timestamp)))
                      ELSE daily
           k == DailyIndex(withDay, day_key)
           d == withDay[k]
           mult == EffectiveMultiplier(multipliers, record)
           models == d.models_used
           old == IF record.model \in DOMAIN models THEN models[record.model]
                  ELSE [calls |-> 0, premium_reqs |-> 0]
       IN daily' = [withDay EXCEPT ![k] =
            IF ~record.is_premium
            THEN [d EXCEPT !.total_calls = @ + 1]
            ELSE [d EXCEPT
                    !.total_calls = @ + 1,
                    !.premium_calls = @ + 1,
                    !.premium_requests_consumed = @ + mult,
                    !.models_used = DictPut(models, record.model,
                        [calls |-> old.calls + 1,
                         premium_reqs |-> old.premium_reqs + mult])]]
    /\ i' = i + 1
    /\ UNCHANGED << argVars, pc, spendVars, daily_usage, periodVars, restVars >>

\* calculate_daily_usage, the return
DailyFinish ==
    /\ pc = "daily_loop"
    /\ i > Len(records)
    /\ pc' = "daily_done"
    /\ daily_usage' = SortedByDate(daily)
    /\ UNCHANGED << argVars, i, spendVars, daily, periodVars, restVars >>

Next == \/ CallSpend \/ SpendStep \/ SpendFinish
        \/ CallDaily \/ DailyStep \/ DailyFinish

Spec == Init /\ [][Next]_vars

\* the arguments of calculate_spend with the table that prices both models
InitOrder ==
    /\ Init
    /\ DOMAIN multipliers = Models

\* calculate_spend alone, a call at a step
SpecOrder == InitOrder /\ [][NextOrder]_vars

(***************************************************************************)
(* get_billing_period                                                      *)
(***************************************************************************)
\* datetime: year, month, day and the time of day (0 is midnight)
IsLeap(y) == (y % 4 = 0 /\ y % 100 # 0) \/ y % 400 = 0

DaysInMonth(y, m) ==
    IF m = 2 THEN (IF IsLeap(y) THEN 29 ELSE 28)
    ELSE IF m \in {4, 6, 9, 11} THEN 30 ELSE 31

Years == {2024, 2025}
TimesOfDay == {0, 1}
Datetimes == { dt \in [year : Years, month : 1..12, day : 1..31, tod : TimesOfDay] :
                 dt.day <= DaysInMonth(dt.year, dt.month) }

\* what datetime() and datetime.replace() accept; they raise ValueError otherwise
ValidDate(y, m, d) == m \in 1..12 /\ d >= 1 /\ d <= DaysInMonth(y, m)

\* the largest day every month has
MaxStartDay == 28

\* a bug: the cycle day is not clamped
StartDayUnclamped(cycle_day) == cycle_day

\* the day of the month the period starts on: the clamped cycle day
StartDay(cycle_day) == Min(cycle_day, MaxStartDay)

\* a bug: a reference date on the start day belongs to the period before
StartMonthStrict(ref, start_day) ==
    IF ref.day > start_day THEN << ref.year, ref.month >>
    ELSE IF ref.month = 1 THEN << ref.year - 1, 12 >>
    ELSE << ref.year, ref.month - 1 >>

\* year and month of the start of the period
StartMonth(ref, start_day) ==
    IF ref.day >= start_day THEN << ref.year, ref.month >>
    ELSE IF ref.month = 1 THEN << ref.year - 1, 12 >>
    ELSE << ref.year, ref.month - 1 >>

\* year and month of the end of the period
EndMonth(start) ==
    IF start.month = 12 THEN << start.year + 1, 1 >>
    ELSE << start.year, start.month + 1 >>

\* the pair (start, end) get_billing_period computes, before replace()
\* validates the dates
BillingPeriod(cycle_day, ref) ==
    LET start_day == StartDay(cycle_day)
        sm == StartMonth(ref, start_day)
        start == [year |-> sm[1], month |-> sm[2], day |-> start_day, tod |-> 0]
        em == EndMonth(start)
        end == [start EXCEPT !.year = em[1], !.month = em[2]]
    IN << start, end >>

InitPeriod ==
    /\ billing_cycle_day \in 1..MaxCycleDay
    /\ reference_date \in Datetimes
    /\ period = << >>
    /\ pc = "idle"
    /\ records = << >>
    /\ plan = << >>
    /\ multipliers = << >>
    /\ sorted_records = << >>
    /\ i = 0
    /\ summary = SpendSummary
    /\ model_breakdown = << >>
    /\ remaining_included = 0
    /\ daily = << >>
    /\ daily_usage = << >>
    /\ IdleRest

\* get_billing_period(billing_cycle_day, reference_date)
GetBillingPeriod ==
    /\ pc = "idle"
    /\ LET p == BillingPeriod(billing_cycle_day, reference_date)
           start == p[1]
           end == p[2]
       IN IF /\ ValidDate(start.year, start.month, start.day)
             /\ ValidDate(end.year, end.month, end.day)
          THEN pc' = "period_done" /\ period' = << start, end >>
          ELSE pc' = "period_error" /\ period' = period
    /\ UNCHANGED << argVars, i, spendVars, dailyVars, billing_cycle_day,
                    reference_date, restVars >>

NextPeriod == GetBillingPeriod

SpecPeriod == InitPeriod /\ [][NextPeriod]_vars

\* the variables of the calculator's spend, daily usage and billing period
\* functions before any call, with no arguments
IdleCalc ==
    /\ records = << >>
    /\ plan = << >>
    /\ multipliers = << >>
    /\ sorted_records = << >>
    /\ i = 0
    /\ summary = SpendSummary
    /\ model_breakdown = << >>
    /\ remaining_included = 0
    /\ daily = << >>
    /\ daily_usage = << >>
    /\ billing_cycle_day = 0
    /\ reference_date = << >>
    /\ period = << >>

calcVars == << argVars, i, spendVars, dailyVars, periodVars >>
\* the variables get_week_ranges leaves alone, and those the log parser does
notWeekVars == << calcVars, parseVars, cacheVars, sessVars >>
notParseVars == << calcVars, weekVars, cacheVars, sessVars >>

(***************************************************************************)
(* get_week_ranges.  Times are counted in days.                            *)
(***************************************************************************)
\* latest start and end of the range handed to get_week_ranges
MaxRangeStart == 3
MaxRangeEnd == 24

\* timedelta(days=7)
WeekDays == 7

\* a bug: the chunk is not cut at the end of the range
WeekEndOvershoot(cur, end) == cur + WeekDays

\* week_end of the chunk that starts at cur
WeekEnd(cur, end) == Min(cur + WeekDays, end)

InitWeeks ==
    /\ range_start \in 0..MaxRangeStart
    /\ range_end \in 0..MaxRangeEnd
    /\ current = 0
    /\ weeks = << >>
    /\ pc = "idle"
    /\ IdleCalc
    /\ IdleSess
    /\ IdleParse
    /\ IdleCache

\* get_week_ranges, up to the loop
CallWeekRanges ==
    /\ pc = "idle"
    /\ pc' = "weeks_loop"
    /\ weeks' = << >>
    /\ current' = range_start
    /\ UNCHANGED << range_start, range_end, notWeekVars >>

\* one iteration of the loop of get_week_ranges
WeekStep ==
    /\ pc = "weeks_loop"
    /\ current < range_end
    /\ LET week_end == WeekEnd(current, range_end)
       IN /\ weeks' = Append(weeks, << current, week_end >>)
          /\ current' = week_end
    /\ UNCHANGED << pc, range_start, range_end, notWeekVars >>

\* get_week_ranges, the return
WeekReturn ==
    /\ pc = "weeks_loop"
    /\ ~(current < range_end)
    /\ pc' = "weeks_done"
    /\ UNCHANGED << weekVars, notWeekVars >>

NextWeeks == CallWeekRanges \/ WeekStep \/ WeekReturn

SpecWeeks == InitWeeks /\ [][NextWeeks]_vars

(***************************************************************************)
(* log_parser.py.  A log file is a list of items, each a timestamped line  *)
(* with the JSON block that follows it, if any:                            *)
(*   "info"   a "Got model info:" line; body is the parsed block,          *)
(*   "call"   a "[Telemetry] cli.model_call:" line; body is the block,     *)
(*   "ctx"    a line that carries a "session_id" field and nothing else,   *)
(*   "start"  a line with "kind": "session_start",                         *)
(*   "other"  a line none of the patterns matches.                         *)
(* ts is the timestamp of the line in seconds and sid the session id a     *)
(* search for "session_id" finds on the lines of the item ("" for none).   *)
(***************************************************************************)
\* strftime('%Y-%m-%dT%H:%M'): seconds in a minute
SecondsPerMinute == 60
\* the tolerance of the fallback match, in seconds
MatchTolerance == 5
\* lines searched backward for a session id
SessionIdWindow == 30
\* lines searched forward by _find_nearby_field
NearbyWindow == 20

Abs(x) == IF x < 0 THEN 0 - x ELSE x

\* None, for a time that is not set
NoTime == -1

\* the body of a "Got model info:" block
InfoBody(family, premium) ==
    [billing |-> [is_premium |-> premium, multiplier |-> IF premium THEN 2 ELSE 0],
     capabilities |-> [family |-> family]]

\* the body of a telemetry block; a count of 0 stands for a missing field too
CallBody(model, prompt, ts, sid) ==
    [model |-> model, prompt_tokens_count |-> prompt,
     completion_tokens_count |-> 7, cached_tokens_count |-> 3,
     duration_ms |-> 100 + ts, session_id |-> sid]

InfoLine(ts, family, premium) ==
    [kind |-> "info", ts |-> ts, sid |-> "", body |-> InfoBody(family, premium)]
CallLine(ts, model, prompt, sid) ==
    [kind |-> "call", ts |-> ts, sid |-> sid, body |-> CallBody(model, prompt, ts, sid)]
CtxLine(ts, sid) == [kind |-> "ctx", ts |-> ts, sid |-> sid, body |-> << >>]
StartLine(ts, sid) == [kind |-> "start", ts |-> ts, sid |-> sid, body |-> << >>]
OtherLine(ts) == [kind |-> "other", ts |-> ts, sid |-> "", body |-> << >>]

\* the body of a marker whose brace-balanced block is no JSON
Malformed == [malformed |-> TRUE]
BadInfoLine(ts) == [kind |-> "info", ts |-> ts, sid |-> "", body |-> Malformed]
BadCallLine(ts, sid) == [kind |-> "call", ts |-> ts, sid |-> sid, body |-> Malformed]

\* a bug: a block that is no JSON is read as a block without fields
ExtractLenient(line) ==
    IF "malformed" \in DOMAIN line.body THEN [parsed |-> FALSE] ELSE line.body

\* _extract_json_block on the block of an item: None (no field) when
\* json.loads rejects the text
ExtractJsonBlock(line) ==
    IF "malformed" \in DOMAIN line.body THEN << >> ELSE line.body

\* the positions of the items of a kind, in file order
RECURSIVE PositionsOf(_, _)
PositionsOf(lines, kind) ==
    IF lines = << >> THEN << >>
    ELSE LET rest == PositionsOf(SubSeq(lines, 1, Len(lines) - 1), kind)
         IN IF lines[Len(lines)].kind = kind THEN Append(rest, Len(lines)) ELSE rest

\* the positions of the markers of a kind the passes of parse_log_file
\* take: "if block and timestamp"
MarkersOf(lines, kind) ==
    SelectSeq(PositionsOf(lines, kind),
              LAMBDA k : DOMAIN ExtractJsonBlock(lines[k]) # {} /\ lines[k].ts # NoTime)

\* model_calls: the telemetry blocks of the file with their _timestamp
ModelCalls(lines) ==
    LET at == MarkersOf(lines, "call")
    IN [n \in 1..Len(at) |->
          [_timestamp |-> lines[at[n]].ts, block |-> ExtractJsonBlock(lines[at[n]])]]

\* a bug: the key leaves the time out
LookupKeyAnyTime(ts, model) == << 0, model >>

\* the key of call_lookup: the minute of the timestamp and the model
LookupKey(ts, model) == << ts \div SecondsPerMinute, model >>

\* call_lookup.get(key, {}): the last telemetry block stored under the key
CallLookup(model_calls, key) ==
    LET at == { n \in 1..Len(model_calls) :
                  LookupKey(model_calls[n]._timestamp,
                            DictGet(model_calls[n].block, "model", "")) = key }
    IN IF at = {} THEN << >>
       ELSE model_calls[CHOOSE n \in at : \A k \in at : k <= n].block

\* _find_recent_session_id: the nearest session id on the line or before it
FindRecentSessionId(lines, around) ==
    LET at == { k \in Max(1, around - SessionIdWindow)..around : lines[k].sid # "" }
    IN IF at = {} THEN ""
       ELSE lines[CHOOSE k \in at : \A j \in at : j <= k].sid

\* the UsageRecord built for the model-info item at position k
RecordAt(lines, k, model_calls, source) ==
    LET model_info == ExtractJsonBlock(lines[k])
        session_id == FindRecentSessionId(lines, k)
        billing == DictGet(model_info, "billing", << >>)
        capabilities == DictGet(model_info, "capabilities", << >>)
        family == DictGet(capabilities, "family", "unknown")
        mc == CallLookup(model_calls, LookupKey(lines[k].ts, family))
    IN [timestamp |-> lines[k].ts,
        model |-> family,
        multiplier |-> DictGet(billing, "multiplier", 0),
        is_premium |-> DictGet(billing, "is_premium", FALSE),
        source_file |-> source,
        prompt_tokens |-> DictGet(mc, "prompt_tokens_count", 0),
        completion_tokens |-> DictGet(mc, "completion_tokens_count", 0),
        cached_tokens |-> DictGet(mc, "cached_tokens_count", 0),
        duration_ms |-> DictGet(mc, "duration_ms", 0),
        session_id |-> IF session_id # "" THEN session_id
                       ELSE DictGet(mc, "session_id", "")]

\* the records of the second pass of parse_log_file, in file order
InfoRecords(lines, model_calls, source) ==
    LET at == MarkersOf(lines, "info")
    IN [n \in 1..Len(at) |-> RecordAt(lines, at[n], model_calls, source)]

\* a bug: every record looks for a telemetry block, matched before or not
NeverMatched(record) == FALSE

\* the test of _enrich_unmatched_records for a record matched before
AlreadyMatched(record) == record.prompt_tokens > 0

\* the telemetry blocks _enrich_unmatched_records may give to a record
Candidates(record, model_calls, used_indices) ==
    { idx \in 1..Len(model_calls) :
        /\ idx \notin used_indices
        /\ DictGet(model_calls[idx].block, "model", "") = record.model
        /\ Abs(model_calls[idx]._timestamp - record.timestamp) < MatchTolerance }

\* best_idx: the first of the closest candidates, 0 when there is none
BestIndex(record, model_calls, used_indices) ==
    LET c == Candidates(record, model_calls, used_indices)
        delta(idx) == Abs(model_calls[idx]._timestamp - record.timestamp)
    IN IF c = {} THEN 0
       ELSE CHOOSE idx \in c :
              \A o \in c : delta(idx) < delta(o) \/ (delta(idx) = delta(o) /\ idx <= o)

\* the record with the token data of telemetry block mc
Enriched(record, mc) ==
    [record EXCEPT
       !.prompt_tokens = DictGet(mc, "prompt_tokens_count", 0),
       !.completion_tokens = DictGet(mc, "completion_tokens_count", 0),
       !.cached_tokens = DictGet(mc, "cached_tokens_count", 0),
       !.duration_ms = DictGet(mc, "duration_ms", 0),
       !.session_id = IF @ = "" THEN DictGet(mc, "session_id", "") ELSE @]

\* _enrich_unmatched_records from record n on: the records after the pass
RECURSIVE EnrichFrom(_, _, _, _)
EnrichFrom(recs, model_calls, used_indices, n) ==
    IF n > Len(recs) THEN recs
    ELSE IF AlreadyMatched(recs[n]) THEN EnrichFrom(recs, model_calls, used_indices, n + 1)
    ELSE LET best_idx == BestIndex(recs[n], model_calls, used_indices)
         IN IF best_idx = 0 THEN EnrichFrom(recs, model_calls, used_indices, n + 1)
            ELSE EnrichFrom([recs EXCEPT ![n] = Enriched(@, model_calls[best_idx].block)],
                            model_calls, used_indices \cup {best_idx}, n + 1)

EnrichUnmatchedRecords(recs, model_calls) == EnrichFrom(recs, model_calls, {}, 1)

\* a bug: the file is read without the test that it exists
ReadUnchecked(fs, filepath) == << "FileNotFoundError" >>

\* the result for a path that is no file
MissingFile(fs, filepath) == << >>

\* parse_log_file(path) over the files of the file system
ParseLogFile(fs, filepath) ==
    IF filepath \notin DOMAIN fs THEN MissingFile(fs, filepath)
    ELSE LET lines == fs[filepath]
             model_calls == ModelCalls(lines)
         IN EnrichUnmatchedRecords(InfoRecords(lines, model_calls, filepath), model_calls)

\* a line with "kind": "assistant_turn_end"
TurnLine(ts, sid) == [kind |-> "turn", ts |-> ts, sid |-> sid, body |-> << >>]

\* SessionRecord(session_id, start_time, source_file) with the defaults of the class
NewSession(session_id, start_time, source) ==
    [session_id |-> session_id, start_time |-> start_time, end_time |-> NoTime,
     models_used |-> << >>, total_turns |-> 0, total_calls |-> 0,
     total_prompt_tokens |-> 0, total_completion_tokens |-> 0,
     total_cached_tokens |-> 0, total_duration_ms |-> 0, source_file |-> source]

\* _find_nearby_field(lines, idx, "session_id", 20): the first id from idx on
FindNearbyField(lines, idx) ==
    LET at == { k \in idx..Min(Len(lines), idx + NearbyWindow - 1) : lines[k].sid # "" }
    IN IF at = {} THEN ""
       ELSE lines[CHOOSE k \in at : \A j \in at : k <= j].sid

\* the position of session id sid in the dict sessions, 0 if it is no key
SessionIndex(sessions, sid) ==
    IF \E n \in 1..Len(sessions) : sessions[n].session_id = sid
    THEN CHOOSE n \in 1..Len(sessions) : sessions[n].session_id = sid
    ELSE 0

\* sessions[sid] = session: a new key goes last, a known key keeps its place
SessionPut(sessions, session) ==
    LET n == SessionIndex(sessions, session.session_id)
    IN IF n = 0 THEN Append(sessions, session) ELSE [sessions EXCEPT ![n] = session]

\* the session after a telemetry block of it at time ts
SessionAddCall(s, block, ts) ==
    LET model == DictGet(block, "model", "unknown")
    IN [s EXCEPT
          !.total_calls = @ + 1,
          !.total_prompt_tokens = @ + DictGet(block, "prompt_tokens_count", 0),
          !.total_completion_tokens = @ + DictGet(block, "completion_tokens_count", 0),
          !.total_cached_tokens = @ + DictGet(block, "cached_tokens_count", 0),
          !.total_duration_ms = @ + DictGet(block, "duration_ms", 0),
          !.models_used = IF \E n \in 1..Len(@) : @[n] = model THEN @ ELSE Append(@, model),
          !.end_time = IF ts # NoTime THEN ts ELSE @]

\* one round of the loop of parse_sessions, on the item at position k
SessionStep(st, lines, k, source) ==
    LET line == lines[k]
        last_timestamp == IF line.ts # NoTime THEN line.ts ELSE st.last_timestamp
        sid_match == FindNearbyField(lines, k)
        n == SessionIndex(st.sessions, sid_match)
        c == SessionIndex(st.sessions, DictGet(ExtractJsonBlock(line), "session_id", ""))
    IN [last_timestamp |-> last_timestamp,
        sessions |->
          IF line.kind = "start" /\ sid_match # "" /\ last_timestamp # NoTime
            THEN SessionPut(st.sessions, NewSession(sid_match, last_timestamp, source))
          ELSE IF line.kind = "turn" /\ sid_match # "" /\ n # 0
            THEN [st.sessions EXCEPT ![n].total_turns = @ + 1]
          ELSE IF line.kind = "call" /\ c # 0
            THEN [st.sessions EXCEPT ![c] = SessionAddCall(@, ExtractJsonBlock(line), line.ts)]
          ELSE st.sessions]

\* the loop of parse_sessions over the first k items
RECURSIVE SessionScan(_, _, _)
SessionScan(lines, k, source) ==
    IF k = 0 THEN [last_timestamp |-> NoTime, sessions |-> << >>]
    ELSE SessionStep(SessionScan(lines, k - 1, source), lines, k, source)

\* a bug: every session gets the last timestamp of the file
BackfillAll(st) ==
    [n \in 1..Len(st.sessions) |->
       [st.sessions[n] EXCEPT !.end_time = st.last_timestamp]]

\* the sessions with the end time that is not set filled in
Backfill(st) ==
    [n \in 1..Len(st.sessions) |->
       IF st.sessions[n].end_time = NoTime /\ st.last_timestamp # NoTime
       THEN [st.sessions[n] EXCEPT !.end_time = st.last_timestamp]
       ELSE st.sessions[n]]

\* a bug: the file is read without the test that it exists
ReadSessionsUnchecked(fs, filepath) == << "FileNotFoundError" >>

\* the sessions for a path that is no file
MissingSessionFile(fs, filepath) == << >>

\* parse_sessions(path) over the files of the file system
ParseSessions(fs, filepath) ==
    IF filepath \notin DOMAIN fs THEN MissingSessionFile(fs, filepath)
    ELSE Backfill(SessionScan(fs[filepath], Len(fs[filepath]), filepath))

(***************************************************************************)
(* parse_log_directory and get_log_files, and the calls of the parser.     *)
(***************************************************************************)
\* the file names of the model, in the order sorted() gives paths
NameOrder == << "notes.txt", "process-1.log", "process-2.log" >>
FileNames == { NameOrder[n] : n \in 1..Len(NameOrder) }

\* the names the pattern "process-*.log" matches
ProcessLogs == { "process-1.log", "process-2.log" }

\* a bug: every file of the directory is taken
GlobAll(fs) == DOMAIN fs

\* log_dir.glob("process-*.log")
Glob(fs) == DOMAIN fs \cap ProcessLogs

\* sorted(names), as a list
SortedNames(names) ==
    SelectSeq(NameOrder, LAMBDA name : name \in names)

\* get_log_files(log_dir)
GetLogFiles(exists, fs) ==
    IF ~exists THEN << >> ELSE SortedNames(Glob(fs))

\* all_records after the files names[1..n] were parsed
RECURSIVE AllRecords(_, _, _)
AllRecords(fs, names, n) ==
    IF n = 0 THEN << >>
    ELSE AllRecords(fs, names, n - 1) \o ParseLogFile(fs, names[n])

\* parse_log_directory(log_dir)
ParseLogDirectory(exists, fs) ==
    IF ~exists THEN << >>
    ELSE LET names == SortedNames(Glob(fs))
         IN SortedByTimestamp(AllRecords(fs, names, Len(names)))

\* a call of parse_log_file
CallParseLogFile ==
    /\ pc = "idle"
    /\ result' = ParseLogFile(files, path)
    /\ pc' = "parse_log_file"
    /\ UNCHANGED << dir_exists, files, path, notParseVars >>

\* a call of parse_sessions
CallParseSessions ==
    /\ pc = "idle"
    /\ result' = ParseSessions(files, path)
    /\ pc' = "parse_sessions"
    /\ UNCHANGED << dir_exists, files, path, notParseVars >>

\* a call of parse_log_directory
CallParseLogDirectory ==
    /\ pc = "idle"
    /\ result' = ParseLogDirectory(dir_exists, files)
    /\ pc' = "parse_log_directory"
    /\ UNCHANGED << dir_exists, files, path, notParseVars >>

\* a call of get_log_files
CallGetLogFiles ==
    /\ pc = "idle"
    /\ result' = GetLogFiles(dir_exists, files)
    /\ pc' = "get_log_files"
    /\ UNCHANGED << dir_exists, files, path, notParseVars >>

\* most items of a file of the directory specification
MaxDirLines == 2

\* the items of the files of the directory specification
DirLines ==
    { InfoLine(ts, "opus", TRUE) : ts \in {57, 61} }
      \cup { CallLine(57, "opus", 5, "a"), StartLine(57, "a") }

RECURSIVE SeqsUpTo(_, _)
SeqsUpTo(S, n) ==
    IF n = 0 THEN { << >> }
    ELSE LET shorter == SeqsUpTo(S, n - 1)
         IN shorter \cup { Append(s, x) : s \in { t \in shorter : Len(t) = n - 1 }, x \in S }

\* the directories: any of the files may be there, the process logs with any items
Directories ==
    { fs \in UNION { [names -> SeqsUpTo(DirLines, MaxDirLines)] : names \in SUBSET FileNames } :
        "notes.txt" \in DOMAIN fs => fs["notes.txt"] = << InfoLine(57, "opus", TRUE) >> }

InitDir ==
    /\ dir_exists \in BOOLEAN
    /\ files \in (IF dir_exists THEN Directories ELSE { << >> })
    /\ path \in FileNames
    /\ result = << >>
    /\ pc = "idle"
    /\ IdleCalc
    /\ IdleSess
    /\ IdleWeeks
    /\ IdleCache

NextDir ==
    \/ CallParseLogFile
    \/ CallParseSessions
    \/ CallParseLogDirectory
    \/ CallGetLogFiles

SpecDir == InitDir /\ [][NextDir]_vars

(***************************************************************************)
(* parse_log_file on one file with any items.                              *)
(***************************************************************************)
\* most items of the file of the parser specification
MaxLines == 3

\* the items of the file: model-info events at 0:57 and 1:01, telemetry
\* blocks at 0:00, 0:57 and 1:01 with and without a prompt count, and a
\* line with a session id of its own
ParseLines ==
    { InfoLine(ts, family, TRUE) : ts \in {57, 61}, family \in Models }
      \cup { CallLine(ts, model, prompt, "a") :
               ts \in {0, 57, 61}, model \in Models, prompt \in {0, 5} }
      \cup { CtxLine(57, "b") }

InitParse ==
    /\ dir_exists = TRUE
    /\ files \in [{"process-1.log"} -> SeqsUpTo(ParseLines, MaxLines)]
    /\ path = "process-1.log"
    /\ result = << >>
    /\ pc = "idle"
    /\ IdleCalc
    /\ IdleSess
    /\ IdleWeeks
    /\ IdleCache

NextParse == CallParseLogFile

SpecParse == InitParse /\ [][NextParse]_vars

(***************************************************************************)
(* storage.py: the cache UsageDB.  A table is the list of its rows.        *)
(***************************************************************************)
notCacheVars == << calcVars, weekVars, parseVars, sessVars >>

\* timestamp.isoformat(): the text of a time, here its minute and second
Isoformat(ts) == << ts \div SecondsPerMinute, ts % SecondsPerMinute >>

\* the columns store_records writes for record r
UsageRow(r) ==
    [timestamp |-> Isoformat(r.timestamp), model |-> r.model,
     multiplier |-> r.multiplier, is_premium |-> IF r.is_premium THEN 1 ELSE 0,
     source_file |-> r.source_file, prompt_tokens |-> r.prompt_tokens,
     completion_tokens |-> r.completion_tokens, cached_tokens |-> r.cached_tokens,
     duration_ms |-> r.duration_ms, session_id |-> r.session_id]

\* UNIQUE(timestamp, model, source_file)
RowKey(row) == << row.timestamp, row.model, row.source_file >>

\* a bug: the new row takes the place of the row with its key
InsertOrReplaceUsage(rows, row) ==
    IF \E n \in 1..Len(rows) : RowKey(rows[n]) = RowKey(row)
    THEN [n \in 1..Len(rows) |-> IF RowKey(rows[n]) = RowKey(row) THEN row ELSE rows[n]]
    ELSE Append(rows, row)

\* INSERT OR IGNORE INTO usage_records
InsertOrIgnore(rows, row) ==
    IF \E n \in 1..Len(rows) : RowKey(rows[n]) = RowKey(row)
    THEN rows
    ELSE Append(rows, row)

\* the table after the loop of store_records over the first n records
RECURSIVE InsertRecords(_, _, _)
InsertRecords(rows, recs, n) ==
    IF n = 0 THEN rows
    ELSE InsertOrIgnore(InsertRecords(rows, recs, n - 1), UsageRow(recs[n]))

\* stored after the loop of store_records: one more for every record
StoredCount(recs) == Len(recs)

\* INSERT OR REPLACE INTO parsed_files
MarkParsed(parsed, name, record_count) ==
    [f \in DOMAIN parsed \cup {name} |-> IF f = name THEN record_count ELSE parsed[f]]

\* a bug: no file counts as parsed
NoFileParsed(parsed, name) == FALSE

\* is_file_parsed(name)
IsFileParsed(parsed, name) == name \in DOMAIN parsed

\* the columns store_sessions writes for session s; models_used is joined
\* to one text, kept here as the list of the names between the commas
SessionRow(s) == s

\* a bug: the row of a session that is stored is kept
SessionInsertOrIgnore(rows, row) ==
    IF \E n \in 1..Len(rows) : rows[n].session_id = row.session_id
    THEN rows
    ELSE Append(rows, row)

\* INSERT OR REPLACE INTO sessions: the row with the id goes, the new one
\* comes last
SessionInsertOrReplace(rows, row) ==
    Append(SelectSeq(rows, LAMBDA old : old.session_id # row.session_id), row)

\* the table after the loop of store_sessions over the first n sessions
RECURSIVE InsertSessions(_, _, _)
InsertSessions(rows, sessions, n) ==
    IF n = 0 THEN rows
    ELSE SessionInsertOrReplace(InsertSessions(rows, sessions, n - 1),
                                SessionRow(sessions[n]))

\* the keys of the records of a list
KeysOf(recs) == { RowKey(UsageRow(recs[n])) : n \in 1..Len(recs) }

\* session id -> the last session of the list with the id, over what was known
LastOf(known, sessions) ==
    LET ids == { sessions[n].session_id : n \in 1..Len(sessions) }
        last(id) == CHOOSE n \in 1..Len(sessions) :
                       /\ sessions[n].session_id = id
                       /\ \A k \in (n + 1)..Len(sessions) : sessions[k].session_id # id
    IN [id \in DOMAIN known \cup ids |->
          IF id \in ids THEN sessions[last(id)] ELSE known[id]]

\* most records or sessions of one store call
MaxBatch == 2

\* a record of the cache specification
CacheRecord(ts, name, prompt) ==
    [timestamp |-> ts, model |-> "opus", multiplier |-> 2, is_premium |-> TRUE,
     source_file |-> name, prompt_tokens |-> prompt, completion_tokens |-> 7,
     cached_tokens |-> 3, duration_ms |-> 100, session_id |-> "a"]

\* the records a caller has for file name: two events in the first log, one
\* in the second, each with or without a prompt count
CacheRecords(name) ==
    { CacheRecord(ts, name, prompt) :
        ts \in (IF name = "process-1.log" THEN {57, 61} ELSE {57}), prompt \in {0, 5} }

\* store_records(records, name)
StoreRecords ==
    /\ pc \in {"idle", "store_records"}
    /\ \E name \in ProcessLogs : \E recs \in SeqsUpTo(CacheRecords(name), MaxBatch) :
         /\ batch' = recs
         /\ filename' = name
         /\ db_usage' = InsertRecords(db_usage, recs, Len(recs))
         /\ stored' = StoredCount(recs)
         /\ db_parsed_files' = MarkParsed(db_parsed_files, name, Len(recs))
         /\ submitted_keys' = submitted_keys \cup KeysOf(recs)
    /\ pc' = "store_records"
    /\ UNCHANGED << db_sessions, last_submitted, scanVars, notCacheVars >>

InitStore ==
    /\ pc = "idle"
    /\ IdleCalc
    /\ IdleSess
    /\ IdleWeeks
    /\ IdleParse
    /\ IdleCache

NextStore == StoreRecords

SpecStore == InitStore /\ [][NextStore]_vars

\* the sessions of the cache specification
CacheSessions ==
    { [NewSession(id, 57, "process-1.log") EXCEPT !.total_turns = turns, !.end_time = end] :
        id \in {"a", "b"}, turns \in {0, 1}, end \in {NoTime, 61} }

\* store_sessions(sessions)
StoreSessions ==
    /\ pc \in {"idle", "store_sessions"}
    /\ \E sessions \in SeqsUpTo(CacheSessions, MaxBatch) :
         /\ batch' = sessions
         /\ db_sessions' = InsertSessions(db_sessions, sessions, Len(sessions))
         /\ stored' = Len(sessions)
         /\ last_submitted' = LastOf(last_submitted, sessions)
    /\ pc' = "store_sessions"
    /\ UNCHANGED << db_usage, db_parsed_files, filename, submitted_keys, scanVars,
                    notCacheVars >>

NextSessionStore == StoreSessions

SpecSessionStore == InitStore /\ [][NextSessionStore]_vars

(***************************************************************************)
(* cli.py scan and interactive.py _do_scan (a scan without --force), one   *)
(* log file at a step.  The files do not change between the scans.         *)
(***************************************************************************)
\* most scans of one behaviour
MaxScans == 2

\* most items of a file of the scan specification
MaxScanLines == 1

\* the items of the files: a model-info event, a session start, another line
ScanLines == { InfoLine(57, "opus", TRUE), StartLine(57, "a"), OtherLine(57) }

\* the directories of the scan specification
ScanDirectories ==
    UNION { [names -> SeqsUpTo(ScanLines, MaxScanLines)] : names \in SUBSET ProcessLogs }

InitScan ==
    /\ dir_exists \in BOOLEAN
    /\ files \in (IF dir_exists THEN ScanDirectories ELSE { << >> })
    /\ path = ""
    /\ result = << >>
    /\ pc = "idle"
    /\ IdleCalc
    /\ IdleSess
    /\ IdleWeeks
    /\ IdleCache

\* scan up to the loop: clear() under --force, then get_log_files
ScanBegin ==
    /\ pc = "idle"
    /\ completed < MaxScans
    /\ \E f \in BOOLEAN :
         /\ force' = f
         /\ IF f THEN /\ db_usage' = << >>
                      /\ db_parsed_files' = << >>
                      /\ db_sessions' = << >>
                 ELSE UNCHANGED dbVars
    /\ LET log_files == GetLogFiles(dir_exists, files)
       IN /\ todo' = log_files
          /\ IF log_files = << >>
             THEN pc' = "idle" /\ completed' = completed + 1
             ELSE pc' = "scan" /\ UNCHANGED completed
    /\ parsed_now' = {}
    /\ UNCHANGED << storeVars, notCacheVars >>

\* the loop of scan on a file that is marked: continue
ScanSkip ==
    /\ pc = "scan"
    /\ todo # << >>
    /\ ~force /\ IsFileParsed(db_parsed_files, Head(todo))
    /\ todo' = Tail(todo)
    /\ UNCHANGED << pc, force, parsed_now, completed, dbVars, storeVars, notCacheVars >>

\* the loop of scan on a file it parses
ScanParse ==
    /\ pc = "scan"
    /\ todo # << >>
    /\ ~(~force /\ IsFileParsed(db_parsed_files, Head(todo)))
    /\ LET name == Head(todo)
           recs == ParseLogFile(files, name)
           sessions == ParseSessions(files, name)
       IN /\ IF recs # << >>
             THEN /\ db_usage' = InsertRecords(db_usage, recs, Len(recs))
                  /\ db_parsed_files' = MarkParsed(db_parsed_files, name, Len(recs))
                  /\ submitted_keys' = submitted_keys \cup KeysOf(recs)
             ELSE UNCHANGED << db_usage, db_parsed_files, submitted_keys >>
          /\ IF sessions # << >>
             THEN /\ db_sessions' = InsertSessions(db_sessions, sessions, Len(sessions))
                  /\ last_submitted' = LastOf(last_submitted, sessions)
             ELSE UNCHANGED << db_sessions, last_submitted >>
          /\ parsed_now' = parsed_now \cup {name}
    /\ todo' = Tail(todo)
    /\ UNCHANGED << pc, force, completed, batch, filename, stored, notCacheVars >>

\* scan after the loop
ScanEnd ==
    /\ pc = "scan"
    /\ todo = << >>
    /\ pc' = "idle"
    /\ completed' = completed + 1
    /\ UNCHANGED << force, todo, parsed_now, dbVars, storeVars, notCacheVars >>

NextScan == ScanBegin \/ ScanSkip \/ ScanParse \/ ScanEnd

SpecScan == InitScan /\ [][NextScan]_vars

(***************************************************************************)
(* The scans while the program that writes the logs appends to them.       *)
(***************************************************************************)
\* most items of a file after the appends
MaxFileLines == 2

\* what is appended to a file: a later model-info event, a later session start
AppendedLines == { InfoLine(61, "opus", TRUE), StartLine(61, "b") }

\* a line is appended to a log file of the directory; the scans read the
\* content a file has when they parse it
AppendToFile ==
    /\ pc \in {"idle", "scan"}
    /\ \E name \in DOMAIN files : \E line \in AppendedLines :
         /\ Len(files[name]) < MaxFileLines
         /\ files' = [files EXCEPT ![name] = Append(@, line)]
    /\ UNCHANGED << pc, dir_exists, path, result, calcVars, weekVars, sessVars,
                    cacheVars >>

NextRescan == NextScan \/ AppendToFile

SpecRescan == InitScan /\ [][NextRescan]_vars

(***************************************************************************)
(* parse_log_file on one file with blocks that are no JSON.                *)
(***************************************************************************)
\* the items of the file: model-info events and telemetry blocks at 0:57,
\* well-formed or not, and a model-info event at 1:01
JsonLines ==
    { InfoLine(57, "opus", TRUE), InfoLine(61, "opus", TRUE), BadInfoLine(57),
      CallLine(57, "opus", 5, "a"), BadCallLine(57, "a") }

InitJson ==
    /\ dir_exists = TRUE
    /\ files \in [{"process-1.log"} -> SeqsUpTo(JsonLines, MaxLines)]
    /\ path = "process-1.log"
    /\ result = << >>
    /\ pc = "idle"
    /\ IdleCalc
    /\ IdleWeeks
    /\ IdleCache
    /\ IdleSess

NextJson == CallParseLogFile

SpecJson == InitJson /\ [][NextJson]_vars

(***************************************************************************)
(* parse_sessions on one file, one item of the file at a step.             *)
(***************************************************************************)
\* most items of the file of the session specification
MaxSessLines == 4

\* the items of the file: starts of sessions a and b, a turn end, telemetry
\* blocks of session a at 0:00 and 1:01 and on a line without timestamp,
\* and another line at 1:39
SessLines ==
    { StartLine(57, "a"), StartLine(61, "a"), StartLine(57, "b"), TurnLine(57, "a"),
      CallLine(0, "opus", 5, "a"), CallLine(61, "opus", 5, "a"),
      CallLine(61, "haiku", 5, "a"), CallLine(NoTime, "opus", 5, "a"),
      OtherLine(99) }

notSessVars == << calcVars, weekVars, cacheVars >>

InitSessions ==
    /\ dir_exists = TRUE
    /\ files \in [{"process-1.log"} -> SeqsUpTo(SessLines, MaxSessLines)]
    /\ path = "process-1.log"
    /\ result = << >>
    /\ sess_state = << >>
    /\ line_no = 0
    /\ pc = "idle"
    /\ IdleCalc
    /\ IdleWeeks
    /\ IdleCache

\* parse_sessions, up to the loop
SessionsBegin ==
    /\ pc = "idle"
    /\ IF path \notin DOMAIN files
       THEN /\ result' = MissingSessionFile(files, path)
            /\ pc' = "sessions_done"
            /\ UNCHANGED sessVars
       ELSE /\ sess_state' = [last_timestamp |-> NoTime, sessions |-> << >>]
            /\ line_no' = 1
            /\ pc' = "sessions_loop"
            /\ UNCHANGED result
    /\ UNCHANGED << dir_exists, files, path, notSessVars >>

\* one round of the loop of parse_sessions
SessionsStep ==
    /\ pc = "sessions_loop"
    /\ line_no <= Len(files[path])
    /\ sess_state' = SessionStep(sess_state, files[path], line_no, path)
    /\ line_no' = line_no + 1
    /\ UNCHANGED << pc, parseVars, notSessVars >>

\* parse_sessions after the loop: the backfill and the return
SessionsReturn ==
    /\ pc = "sessions_loop"
    /\ line_no > Len(files[path])
    /\ result' = Backfill(sess_state)
    /\ pc' = "sessions_done"
    /\ UNCHANGED << dir_exists, files, path, sessVars, notSessVars >>

NextSessions == SessionsBegin \/ SessionsStep \/ SessionsReturn

SpecSessions == InitSessions /\ [][NextSessions]_vars

(***************************************************************************)
(* Properties of calculate_spend and calculate_daily_usage, under Spec.    *)
(***************************************************************************)
RECURSIVE Sum(_, _)
\* the sum of f[x] over the x of the finite set S
Sum(f, S) == IF S = {} THEN 0
             ELSE LET x == CHOOSE y \in S : TRUE IN f[x] + Sum(f, S \ {x})

\* positions of the premium records of the input list
PremiumAt == { j \in 1..Len(records) : records[j].is_premium }

\* the multiplier record j is to be counted with: the table value of its
\* family when the family is a key of the table, else its logged multiplier
TableOrLogged(j) ==
    IF records[j].model \in DOMAIN multipliers THEN multipliers[records[j].model]
    ELSE records[j].multiplier

\* premium records consumed no later than record j, in ascending timestamp
\* order (records of one timestamp in the order of the list), j included
UpTo(j) == { k \in PremiumAt :
               \/ records[k].timestamp < records[j].timestamp
               \/ records[k].timestamp = records[j].timestamp /\ k <= j }

\* cumulative consumed units up to and including record j
Cumulative(j) == Sum([k \in UpTo(j) |-> TableOrLogged(k)], UpTo(j))

\* the part of record j that lies beyond the allowance
TailOf(j) == Min(TableOrLogged(j),
               Max(0, Cumulative(j) - plan.included_premium_reqs))

\* the units consumed by the whole list
TotalConsumed == Sum([k \in PremiumAt |-> TableOrLogged(k)], PremiumAt)

PremiumOf(m) == { j \in PremiumAt : records[j].model = m }

\* C1: when overage is allowed, the overage_reqs of every model is the sum of
\* the tails of its premium records, taken in ascending timestamp order:
\* min(mult, max(0, cumulative consumed units - allowance)).
C1_ChronologicalOverage ==
    (pc = "spend_done" /\ plan.allows_overage) =>
        \A m \in Models :
            EntryOf(model_breakdown, m).overage_reqs
              = Sum([j \in PremiumOf(m) |-> TailOf(j)], PremiumOf(m))

\* a list given out of order with a record that fits, a record of another
\* model that straddles the allowance, and a record wholly beyond it
C1_Witness ==
    /\ pc = "spend_done" /\ plan.allows_overage
    /\ Len(records) = 3
    /\ records[1].timestamp > records[2].timestamp
    /\ \E a, b, c \in PremiumAt :
          /\ TableOrLogged(a) > 0 /\ TailOf(a) = 0
          /\ 0 < TailOf(b) /\ TailOf(b) < TableOrLogged(b)
          /\ records[a].model # records[b].model
          /\ TailOf(c) = TableOrLogged(c) /\ TailOf(c) > 0

\* C2: with overage allowed, the overage_cost entries of the breakdown sum up
\* to the overage_cost of the summary.
C2_BreakdownCostSum ==
    (pc = "spend_done" /\ plan.allows_overage) =>
        Sum([m \in DOMAIN model_breakdown |-> model_breakdown[m].overage_cost],
            DOMAIN model_breakdown) = summary.overage_cost

\* two models share the overage, one of them through a straddling record
C2_Witness ==
    /\ pc = "spend_done" /\ plan.allows_overage
    /\ summary.overage_cost > 0
    /\ \A m \in Models : /\ m \in DOMAIN model_breakdown
                         /\ model_breakdown[m].overage_cost > 0
    /\ \E j \in PremiumAt : 0 < TailOf(j) /\ TailOf(j) < TableOrLogged(j)

\* C3: when the consumed units of the list do not exceed the allowance, the
\* summary has no overage requests and no overage cost and no model has an
\* overage entry, in whatever order the list is given.
C3_NoOverageWithinAllowance ==
    (pc = "spend_done" /\ TotalConsumed <= plan.included_premium_reqs) =>
        /\ summary.overage_requests = 0
        /\ summary.overage_cost = 0
        /\ \A m \in DOMAIN model_breakdown :
              /\ model_breakdown[m].overage_reqs = 0
              /\ model_breakdown[m].overage_cost = 0

\* a list given out of order that uses up the allowance exactly
C3_Witness ==
    /\ pc = "spend_done" /\ plan.allows_overage
    /\ Len(records) >= 2
    /\ records[1].timestamp > records[2].timestamp
    /\ Cardinality(PremiumAt) >= 2
    /\ TotalConsumed = plan.included_premium_reqs
    /\ plan.included_premium_reqs > 0

\* C4: a plan that does not allow overage is never charged for it: the
\* overage cost is 0, the total is the plan price and every breakdown entry
\* has no overage, also when more than the allowance was consumed.
C4_OverageDisallowed ==
    (pc = "spend_done" /\ ~plan.allows_overage) =>
        /\ summary.overage_cost = 0
        /\ summary.total_estimated_spend = plan.price_monthly
        /\ \A m \in DOMAIN model_breakdown :
              /\ model_breakdown[m].overage_reqs = 0
              /\ model_breakdown[m].overage_cost = 0

\* more than the allowance was consumed under such a plan
C4_Witness ==
    /\ pc = "spend_done" /\ ~plan.allows_overage
    /\ plan.included_premium_reqs > 0
    /\ summary.overage_requests > 0
    /\ \E j \in PremiumAt : 0 < TailOf(j) /\ TailOf(j) < TableOrLogged(j)

\* C5: the summary fields follow from the total of the consumed units:
\* included_used is its minimum with the allowance, overage_requests what
\* exceeds the allowance, total_estimated_spend the price plus the overage
\* cost; included_used and overage_requests add up to the consumed units.
C5_SummaryFromTotals ==
    pc = "spend_done" =>
        LET a == plan.included_premium_reqs
        IN /\ summary.premium_requests_consumed = TotalConsumed
           /\ summary.included_used = (IF TotalConsumed <= a THEN TotalConsumed ELSE a)
           /\ summary.overage_requests = (IF TotalConsumed > a THEN TotalConsumed - a ELSE 0)
           /\ summary.total_estimated_spend = plan.price_monthly + summary.overage_cost
           /\ summary.included_used + summary.overage_requests = TotalConsumed

\* a summary with the allowance used up and overage charged
C5_Witness ==
    /\ pc = "spend_done" /\ plan.allows_overage
    /\ summary.included_used = plan.included_premium_reqs
    /\ summary.included_used > 0
    /\ summary.overage_requests > 0
    /\ summary.total_estimated_spend > plan.price_monthly

\* C6: total_calls is the length of the input list and premium_calls the
\* number of its records with is_premium set.
C6_CallCounts ==
    pc = "spend_done" =>
        /\ summary.total_calls = Len(records)
        /\ summary.premium_calls = Cardinality(PremiumAt)

\* a list of premium and non-premium records
C6_Witness ==
    /\ pc = "spend_done"
    /\ Len(records) = 3
    /\ Cardinality(PremiumAt) = 2
    /\ summary.total_calls = 3

\* premium records of model m whose timestamp falls on the day of date
PremiumOn(m, date) ==
    { j \in PremiumOf(m) : records[j].timestamp \div TicksPerDay = date \div TicksPerDay }

\* C7: in calculate_spend and in calculate_daily_usage a premium record is
\* counted with the table value of its family when the family is a key of the
\* table (also a value of 0 or one that differs from the logged one) and
\* with its logged multiplier otherwise.
C7_EffectiveMultiplier ==
    /\ pc = "spend_done" =>
          \A m \in Models :
              EntryOf(model_breakdown, m).premium_reqs
                = Sum([j \in PremiumOf(m) |-> TableOrLogged(j)], PremiumOf(m))
    /\ pc = "daily_done" =>
          \A n \in 1..Len(daily_usage) : \A m \in Models :
              LET d == daily_usage[n]
                  got == IF m \in DOMAIN d.models_used
                         THEN d.models_used[m].premium_reqs ELSE 0
              IN got = Sum([j \in PremiumOn(m, d.date) |-> TableOrLogged(j)],
                           PremiumOn(m, d.date))

\* daily usage of a premium record whose family the table prices 0 and of
\* one whose family the table does not list
C7_Witness ==
    /\ pc = "daily_done"
    /\ \E j, k \in PremiumAt :
          /\ records[j].model \in DOMAIN multipliers
          /\ multipliers[records[j].model] = 0
          /\ records[k].model \notin DOMAIN multipliers
          /\ records[k].multiplier > 0

\* C8: the loop step of a non-premium record adds 1 to total_calls and leaves
\* the rest of the summary, the remaining allowance and the breakdown as they
\* are, whatever its multiplier and its table entry.
C8_NonPremiumFrame ==
    [][ ( /\ pc = "spend_loop"
          /\ i <= Len(sorted_records)
          /\ ~sorted_records[i].is_premium )
        => ( /\ summary' = [summary EXCEPT !.total_calls = @ + 1]
             /\ remaining_included' = remaining_included
             /\ model_breakdown' = model_breakdown ) ]_vars

\* after a premium record, a non-premium record of another family, priced
\* above 0 by the table, was processed and has no breakdown entry
C8_Witness ==
    /\ pc = "spend_loop" /\ i = 3
    /\ sorted_records[1].is_premium
    /\ ~sorted_records[2].is_premium
    /\ sorted_records[2].multiplier > 0
    /\ sorted_records[2].model \in DOMAIN multipliers
    /\ multipliers[sorted_records[2].model] > 0
    /\ sorted_records[2].model \notin DOMAIN model_breakdown
    /\ summary.total_calls = 2 /\ summary.premium_calls = 1

\* C9: a premium record whose family the table does not list consumes exactly
\* 1 request, a non-premium one 0: the consumed units are the table values of
\* the listed premium records plus 1 for each unlisted one.
C9_UnknownFamilyCountsOne ==
    pc = "spend_done" =>
        summary.premium_requests_consumed
          = Sum([j \in PremiumAt |->
                   IF records[j].model \in DOMAIN multipliers
                   THEN multipliers[records[j].model] ELSE 1], PremiumAt)

\* the calendar days on which the records of the input list fall
RecordDays == { records[j].timestamp \div TicksPerDay : j \in 1..Len(records) }

\* positions of the records of calendar day day
RecordsOn(day) == { j \in 1..Len(records) : records[j].timestamp \div TicksPerDay = day }

\* C12: calculate_daily_usage returns one DailyUsage per distinct calendar
\* date of the records, in ascending date order, whose total_calls,
\* premium_calls and consumed units are the counts and the sum of effective
\* multipliers of the records of that date; the total_calls add up to the
\* length of the input.
C12_DailyUsage ==
    pc = "daily_done" =>
        /\ Len(daily_usage) = Cardinality(RecordDays)
        /\ \A n \in 2..Len(daily_usage) : daily_usage[n - 1].date < daily_usage[n].date
        /\ \A n \in 1..Len(daily_usage) :
              LET d == daily_usage[n]
                  day == d.date \div TicksPerDay
                  prem == RecordsOn(day) \cap PremiumAt
              IN /\ day \in RecordDays
                 /\ d.date = day * TicksPerDay
                 /\ d.total_calls = Cardinality(RecordsOn(day))
                 /\ d.premium_calls = Cardinality(prem)
                 /\ d.premium_requests_consumed
                      = Sum([j \in prem |-> TableOrLogged(j)], prem)
        /\ Sum([n \in 1..Len(daily_usage) |-> daily_usage[n].total_calls],
               1..Len(daily_usage)) = Len(records)

\* records of two days given latest day first, two of them at different
\* times of one day, consuming more than the allowance of the plan
C12_Witness ==
    /\ pc = "daily_done"
    /\ Len(records) = 3 /\ Len(daily_usage) = 2
    /\ records[1].timestamp > records[2].timestamp
    /\ records[1].timestamp \div TicksPerDay > records[2].timestamp \div TicksPerDay
    /\ records[3].timestamp # records[2].timestamp
    /\ daily_usage[1].total_calls = 2
    /\ daily_usage[1].premium_requests_consumed > plan.included_premium_reqs
    /\ plan.included_premium_reqs > 0

(***************************************************************************)
(* Properties of calculate_spend over the orders of its input, under       *)
(* SpecOrder.                                                              *)
(***************************************************************************)
\* the input list in another order: record f[k] at place k
Reordered(f) == [k \in 1..Len(records) |-> records[f[k]]]

\* C28, as stated: calculate_spend returns the same summary and the same
\* model_breakdown for every order of the input list.
C28_OrderIrrelevant ==
    pc = "spend_done" =>
       \A f \in Permutations(1..Len(records)) :
          CalculateSpend(Reordered(f), plan, multipliers)
            = [summary |-> summary, model_breakdown |-> model_breakdown]

\* lists q and r have the records of every timestamp in the same order
SameTieOrder(q, r) ==
    \A t \in Timestamps :
       SelectSeq(q, LAMBDA x : x.timestamp = t) = SelectSeq(r, LAMBDA x : x.timestamp = t)

\* C28, amended: for every order of the input list calculate_spend returns
\* the same summary and, for every model, the same calls and premium_reqs;
\* the whole model_breakdown, overage_reqs and overage_cost with it, is the
\* same when the records of equal timestamp keep their order.
C28_TotalsOrderIrrelevant ==
    pc = "spend_done" =>
       \A f \in Permutations(1..Len(records)) :
          LET other == CalculateSpend(Reordered(f), plan, multipliers)
          IN /\ other.summary = summary
             /\ DOMAIN other.model_breakdown = DOMAIN model_breakdown
             /\ \A m \in DOMAIN model_breakdown :
                  /\ other.model_breakdown[m].calls = model_breakdown[m].calls
                  /\ other.model_breakdown[m].premium_reqs = model_breakdown[m].premium_reqs
             /\ SameTieOrder(Reordered(f), records)
                  => other.model_breakdown = model_breakdown

\* C28: two records of one timestamp and of two models, and the other order
\* of them moves overage from one model to the other; a third record of
\* another timestamp is in the list
C28_Witness ==
    /\ pc = "spend_done"
    /\ Len(records) = 3
    /\ \E f \in Permutations(1..Len(records)) :
         LET other == CalculateSpend(Reordered(f), plan, multipliers)
         IN /\ ~SameTieOrder(Reordered(f), records)
            /\ \E m \in DOMAIN model_breakdown :
                 other.model_breakdown[m].overage_reqs > model_breakdown[m].overage_reqs
    /\ \E f \in Permutations(1..Len(records)) :
         /\ Reordered(f) # records
         /\ SameTieOrder(Reordered(f), records)

(***************************************************************************)
(* Properties of get_billing_period, under SpecPeriod.                     *)
(***************************************************************************)
\* months counted from year 0
MonthIndex(dt) == dt.year * 12 + dt.month - 1

\* C10: for a cycle day d >= 1 the period starts at midnight of day
\* min(d, 28), in the month of the reference date when its day is on or after
\* that day and in the month before otherwise, and ends on the same day and
\* time one calendar month later.
C10_BillingPeriod ==
    pc # "idle" =>
        /\ pc = "period_done"
        /\ LET start == period[1]
               end == period[2]
               day == IF billing_cycle_day <= 28 THEN billing_cycle_day ELSE 28
               back == IF reference_date.day >= day THEN 0 ELSE 1
           IN /\ start.day = day /\ start.tod = 0
              /\ start.month \in 1..12
              /\ MonthIndex(start) = MonthIndex(reference_date) - back
              /\ end.day = start.day /\ end.tod = start.tod
              /\ end.month \in 1..12
              /\ MonthIndex(end) = MonthIndex(start) + 1

\* a clamped cycle day and a reference date in January before it: the period
\* runs from December of the year before to January
C10_Witness ==
    /\ pc = "period_done"
    /\ billing_cycle_day > 28
    /\ reference_date.month = 1 /\ reference_date.day < 28
    /\ reference_date.tod # 0
    /\ period[1] = [year |-> reference_date.year - 1, month |-> 12, day |-> 28, tod |-> 0]
    /\ period[2] = [year |-> reference_date.year, month |-> 1, day |-> 28, tod |-> 0]

\* datetimes in calendar order
DtBefore(a, b) ==
    \/ a.year < b.year
    \/ a.year = b.year /\ a.month < b.month
    \/ a.year = b.year /\ a.month = b.month /\ a.day < b.day
    \/ a.year = b.year /\ a.month = b.month /\ a.day = b.day /\ a.tod < b.tod

\* C29: the returned period contains the reference date, start <= ref < end,
\* and the period computed for its end as the reference date starts at that
\* end, so consecutive periods tile the calendar.
C29_PeriodsTile ==
    pc = "period_done" =>
        LET start == period[1]
            end == period[2]
        IN /\ start = reference_date \/ DtBefore(start, reference_date)
           /\ DtBefore(reference_date, end)
           /\ BillingPeriod(billing_cycle_day, end)[1] = end
           /\ BillingPeriod(billing_cycle_day, end)[2] # end

\* a reference date late on the clamped start day in December: it is inside
\* the period that starts that day, and the next period starts in January of
\* the year after
C29_Witness ==
    /\ pc = "period_done"
    /\ billing_cycle_day = 31
    /\ reference_date.month = 12 /\ reference_date.day = 28
    /\ reference_date.tod = 1
    /\ period[1] = [reference_date EXCEPT !.tod = 0]
    /\ period[2] = [year |-> reference_date.year + 1, month |-> 1, day |-> 28, tod |-> 0]
    /\ BillingPeriod(billing_cycle_day, period[2])[1] = period[2]

(***************************************************************************)
(* Properties of get_week_ranges, under SpecWeeks.                         *)
(***************************************************************************)
\* C11: for start < end the chunks partition [start, end): the first starts
\* at start, each starts where the one before ended, all but the last are 7
\* days long, the last ends at end and is at most 7 days long; for
\* start >= end the result is empty; the loop runs at most once per started
\* week of the range.
C11_WeekPartition ==
    /\ pc = "weeks_loop" =>
          /\ Len(weeks) * 7 <= (IF range_start < range_end
                                THEN range_end - range_start ELSE 0) + 6
          /\ current = (IF weeks = << >> THEN range_start ELSE weeks[Len(weeks)][2])
    /\ pc = "weeks_done" =>
          IF range_start >= range_end THEN weeks = << >>
          ELSE /\ Len(weeks) >= 1
               /\ weeks[1][1] = range_start
               /\ \A k \in 2..Len(weeks) : weeks[k][1] = weeks[k - 1][2]
               /\ \A k \in 1..(Len(weeks) - 1) : weeks[k][2] - weeks[k][1] = 7
               /\ weeks[Len(weeks)][2] = range_end
               /\ weeks[Len(weeks)][2] - weeks[Len(weeks)][1] \in 1..7

\* a range of three full weeks and a shorter last chunk
C11_Witness ==
    /\ pc = "weeks_done"
    /\ range_start > 0
    /\ Len(weeks) = 4
    /\ weeks[4][2] - weeks[4][1] < 7

(***************************************************************************)
(* Properties of the calls of the log parser, under SpecDir.               *)
(***************************************************************************)
\* C13: parse_log_file and parse_sessions on a path that is no file, and
\* parse_log_directory and get_log_files on a directory that does not
\* exist, return an empty list and raise nothing.
C13_MissingInputEmpty ==
    /\ (pc \in {"parse_log_file", "parse_sessions"} /\ path \notin DOMAIN files)
          => result = << >>
    /\ (pc \in {"parse_log_directory", "get_log_files"} /\ ~dir_exists)
          => result = << >>

\* C13: parse_sessions was called on a missing path of a directory with files
C13_Witness ==
    /\ pc = "parse_sessions"
    /\ dir_exists
    /\ files # << >>
    /\ path \notin DOMAIN files

\* how often r is in the list s
Count(s, r) == Cardinality({ n \in 1..Len(s) : s[n] = r })

\* how often r is among the records parse_log_file gives for the files of names
RECURSIVE CountAcross(_, _)
CountAcross(names, r) ==
    IF names = {} THEN 0
    ELSE LET name == CHOOSE x \in names : TRUE
         IN Count(ParseLogFile(files, name), r) + CountAcross(names \ {name}, r)

\* C14: parse_log_directory returns a list in order of timestamp that holds
\* every record of every process-*.log file of the directory as often as
\* parse_log_file gives it for the files, and nothing else.
C14_DirectoryMerge ==
    (pc = "parse_log_directory" /\ dir_exists) =>
        LET logs == DOMAIN files \cap ProcessLogs
            parsed == UNION { { ParseLogFile(files, name)[n] :
                                  n \in 1..Len(ParseLogFile(files, name)) } : name \in logs }
        IN /\ \A n \in 1..(Len(result) - 1) : result[n].timestamp <= result[n + 1].timestamp
           /\ \A n \in 1..Len(result) : result[n] \in parsed
           /\ \A r \in parsed : Count(result, r) = CountAcross(logs, r)

\* C14: two process logs were merged, the record of the second file first,
\* next to a file the pattern does not match
C14_Witness ==
    /\ pc = "parse_log_directory"
    /\ "notes.txt" \in DOMAIN files
    /\ Len(result) >= 2
    /\ result[1].source_file = "process-2.log"
    /\ result[Len(result)].source_file = "process-1.log"
    /\ result[1].timestamp < result[Len(result)].timestamp

(***************************************************************************)
(* Properties of parse_log_file, under SpecParse.                          *)
(***************************************************************************)
\* the telemetry blocks of the family of the model-info event at position k
FamilyCalls(lines, k) ==
    { c \in 1..Len(lines) :
        /\ lines[c].kind = "call"
        /\ lines[c].body.model = lines[k].body.capabilities.family }

\* those of them in the calendar minute of the event
SameMinuteCalls(lines, k) ==
    { c \in FamilyCalls(lines, k) :
        lines[c].ts \div SecondsPerMinute = lines[k].ts \div SecondsPerMinute }

\* those of them less than 5 seconds from the event
NearCalls(lines, k) ==
    { c \in FamilyCalls(lines, k) : Abs(lines[c].ts - lines[k].ts) < 5 }

\* the token counts and the duration of the record are those of the block
TokensFrom(record, block) ==
    /\ record.prompt_tokens = block.prompt_tokens_count
    /\ record.completion_tokens = block.completion_tokens_count
    /\ record.cached_tokens = block.cached_tokens_count
    /\ record.duration_ms = block.duration_ms

\* the token counts and the duration of the record are zero
TokensZero(record) ==
    /\ record.prompt_tokens = 0
    /\ record.completion_tokens = 0
    /\ record.cached_tokens = 0
    /\ record.duration_ms = 0

\* C15: the record of a model-info event that shares its calendar minute
\* with telemetry blocks of its family has the token counts and the
\* duration of one of these blocks, and the session id of that block when
\* none was found near the event.
C15_SameMinuteTelemetry ==
    (pc = "parse_log_file" /\ path \in DOMAIN files) =>
        LET lines == files[path]
            at == PositionsOf(lines, "info")
        IN /\ Len(result) = Len(at)
           /\ \A n \in 1..Len(at) :
                SameMinuteCalls(lines, at[n]) # {} =>
                  \E c \in SameMinuteCalls(lines, at[n]) :
                     /\ TokensFrom(result[n], lines[c].body)
                     /\ result[n].session_id =
                          (IF FindRecentSessionId(lines, at[n]) # ""
                           THEN FindRecentSessionId(lines, at[n])
                           ELSE lines[c].body.session_id)

C21_BlockUsedOnce ==
    (pc = "parse_log_file" /\ path \in DOMAIN files) =>
        LET lines == files[path]
            at == PositionsOf(lines, "info")
            calls == PositionsOf(lines, "call")
            fed == { n \in 1..Len(result) : ~TokensZero(result[n]) }
        IN /\ \E block \in [fed -> DOMAIN calls] :
                /\ \A m, n \in fed : block[m] = block[n] => m = n
                /\ \A n \in fed :
                     /\ calls[block[n]] \in FamilyCalls(lines, at[n])
                     /\ TokensFrom(result[n], lines[calls[block[n]]].body)
           /\ \A n \in fed :
                SameMinuteCalls(lines, at[n]) = {} =>
                  \E c \in NearCalls(lines, at[n]) : TokensFrom(result[n], lines[c].body)

\* C22: a record that found a telemetry block under its (minute, family)
\* key in the first pass leaves parse_log_file as the first pass built it.
C22_FirstPassFinal ==
    (pc = "parse_log_file" /\ path \in DOMAIN files) =>
        LET lines == files[path]
            at == PositionsOf(lines, "info")
            first == InfoRecords(lines, ModelCalls(lines), path)
        IN \A n \in 1..Len(at) :
             SameMinuteCalls(lines, at[n]) # {} => result[n] = first[n]

\* the positions within 30 lines of position k, before or after, that
\* carry a session id
SessionIdsAround(lines, k) ==
    { j \in 1..Len(lines) : Abs(j - k) <= 30 /\ lines[j].sid # "" }

\* C23: the session id of a record is that of a nearest line with a session
\* id within 30 lines of the model-info line, before or after it; with no
\* such line it is the id of a telemetry block of the family or empty.
C23_SessionIdBothWays ==
    (pc = "parse_log_file" /\ path \in DOMAIN files) =>
        LET lines == files[path]
            at == PositionsOf(lines, "info")
        IN \A n \in 1..Len(at) :
             LET around == SessionIdsAround(lines, at[n])
             IN IF around # {}
                THEN \E j \in around :
                       /\ \A o \in around : Abs(j - at[n]) <= Abs(o - at[n])
                       /\ result[n].session_id = lines[j].sid
                ELSE result[n].session_id \in
                       {""} \cup { lines[c].body.session_id : c \in FamilyCalls(lines, at[n]) }

\* the positions of the model-info events whose block is JSON
WellFormedInfos(lines) ==
    SelectSeq([k \in 1..Len(lines) |-> k],
              LAMBDA k : lines[k].kind = "info" /\ lines[k].body # Malformed)

\* C27, under SpecJson: parse_log_file returns one record for every
\* model-info event whose block is JSON, in the order of the file and with
\* the time and the family of its event, whatever blocks that are no JSON
\* come before or after; a telemetry block that is no JSON gives no data.
C27_MalformedSkipped ==
    (pc = "parse_log_file" /\ path \in DOMAIN files) =>
        LET lines == files[path]
            at == WellFormedInfos(lines)
        IN /\ Len(result) = Len(at)
           /\ \A n \in 1..Len(at) :
                /\ result[n].timestamp = lines[at[n]].ts
                /\ result[n].model = lines[at[n]].body.capabilities.family
                /\ (\A c \in 1..Len(lines) : lines[c].kind = "call" => lines[c].body = Malformed)
                      => TokensZero(result[n])

\* C27: a model-info event after a model-info block and a telemetry block
\* that are no JSON gave the only record
C27_Witness ==
    /\ pc = "parse_log_file"
    /\ Len(files[path]) = 3
    /\ files[path][1] = BadInfoLine(57)
    /\ files[path][2] = BadCallLine(57, "a")
    /\ files[path][3].kind = "info"
    /\ Len(result) = 1
    /\ result[1].timestamp = files[path][3].ts

(***************************************************************************)
(* Properties of the cache, under SpecStore and SpecSessionStore.          *)
(***************************************************************************)
\* the keys of the rows of table usage_records
StoredKeys == { RowKey(db_usage[n]) : n \in 1..Len(db_usage) }

\* C17: after every store_records call the table has as many rows as
\* distinct keys (timestamp, model, source file) were handed in so far, and
\* a call all of whose records have their key in the table leaves every
\* row as it was.
C17_IdempotentInsert ==
    [][ pc' = "store_records" =>
          /\ Len(db_usage') = Cardinality(submitted_keys')
          /\ KeysOf(batch') \subseteq StoredKeys => db_usage' = db_usage ]_vars

\* C17: a record was handed in whose key is stored with another prompt
\* count, and the table has rows of other keys too
C17_Witness ==
    /\ pc = "store_records"
    /\ Len(db_usage) >= 2
    /\ \E n \in 1..Len(batch), m \in 1..Len(db_usage) :
         /\ RowKey(UsageRow(batch[n])) = RowKey(db_usage[m])
         /\ batch[n].prompt_tokens # db_usage[m].prompt_tokens

\* C20: store_records returns the number of rows the call added to the
\* table; records whose key was there are not counted.
C20_ReturnsStoredCount ==
    [][ pc' = "store_records" => stored' = Len(db_usage') - Len(db_usage) ]_vars

\* C18: table sessions has one row for every session id handed to
\* store_sessions so far and no other, and the row has the fields of the
\* last SessionRecord handed in with the id.
C18_SessionUpsert ==
    /\ \A m, n \in 1..Len(db_sessions) :
         db_sessions[m].session_id = db_sessions[n].session_id => m = n
    /\ { db_sessions[n].session_id : n \in 1..Len(db_sessions) } = DOMAIN last_submitted
    /\ \A n \in 1..Len(db_sessions) :
         db_sessions[n] = last_submitted[db_sessions[n].session_id]

\* C18: a stored session was handed in again with other fields, twice in
\* one call, while another session is stored
C18_Witness ==
    /\ pc = "store_sessions"
    /\ Len(batch) = 2
    /\ batch[1].session_id = batch[2].session_id
    /\ batch[1] # batch[2]
    /\ Len(db_sessions) = 2
    /\ db_sessions[2] = batch[2]

(***************************************************************************)
(* Properties of scan, under SpecScan.                                     *)
(***************************************************************************)
\* C19: every file a scan without --force has parsed is marked as parsed,
\* and a scan without --force that follows a finished scan over the same
\* files parses no file.
C19_ProcessedFileMarked ==
    ~force =>
       /\ \A name \in parsed_now : name \in DOMAIN db_parsed_files
       /\ (pc = "scan" /\ completed > 0) => parsed_now = {}

(***************************************************************************)
(* Properties of the scans over files that grow, under SpecRescan.         *)
(***************************************************************************)
\* the rows of table usage that came from file name
RowsOf(rows, name) == SelectSeq(rows, LAMBDA row : row.source_file = name)

\* the records of file name, as it is now, that table usage has no row for
NotCached(name) ==
    KeysOf(ParseLogFile(files, name)) \ { RowKey(db_usage[n]) : n \in 1..Len(db_usage) }

\* C30: a step of a scan without --force does not parse a file whose name is
\* marked as parsed and leaves the mark and the rows of the file as they
\* were, whatever the file holds now; so records appended to a marked file
\* reach the cache only in a scan with --force, which parses every file.
C30_MarkedNeverReread ==
    [][ /\ \A name \in DOMAIN db_parsed_files :
             ~force' =>
                /\ name \notin parsed_now' \ parsed_now
                /\ name \in DOMAIN db_parsed_files'
                /\ db_parsed_files'[name] = db_parsed_files[name]
                /\ RowsOf(db_usage', name) = RowsOf(db_usage, name)
        /\ (force' /\ pc = "scan" /\ todo' # todo) =>
              parsed_now' = parsed_now \cup {Head(todo)} ]_vars

\* C30: a scan without --force after a first scan went over every file and
\* parsed none, and a marked file holds a record that is not in the cache
C30_Witness ==
    /\ pc = "scan"
    /\ ~force
    /\ completed > 0
    /\ todo = << >>
    /\ parsed_now = {}
    /\ \E name \in DOMAIN db_parsed_files : NotCached(name) # {}

(***************************************************************************)
(* Properties of parse_sessions, under SpecSessions.                       *)
(***************************************************************************)
\* the session with the id of s in the list after, or s where there is none
SameSession(after, s) ==
    IF \E n \in 1..Len(after) : after[n].session_id = s.session_id
    THEN after[CHOOSE n \in 1..Len(after) : after[n].session_id = s.session_id]
    ELSE s

\* C24: no step of parse_sessions removes a session, clears an end time
\* that is set or replaces it by an earlier time.
C24_EndTimeAdvances ==
    [][ pc = "sessions_loop" =>
          LET after == IF pc' = "sessions_loop" THEN sess_state'.sessions ELSE result'
          IN \A n \in 1..Len(sess_state.sessions) :
               LET s == sess_state.sessions[n]
               IN /\ \E m \in 1..Len(after) : after[m].session_id = s.session_id
                  /\ s.end_time # NoTime =>
                       /\ SameSession(after, s).end_time # NoTime
                       /\ SameSession(after, s).end_time >= s.end_time ]_vars

\* list s is the beginning of list t
IsPrefix(s, t) == Len(s) <= Len(t) /\ \A n \in 1..Len(s) : s[n] = t[n]

\* C25: no round of the loop of parse_sessions, a round on a session start
\* of a known id among them, changes the start time of a session, lowers
\* one of its counters or takes a name from its models_used; the list only
\* grows at its end and has no name twice.
C25_SessionOnlyGrows ==
    [][ (pc = "sessions_loop" /\ pc' = "sessions_loop") =>
          \A n \in 1..Len(sess_state.sessions) :
             LET s == sess_state.sessions[n]
                 t == SameSession(sess_state'.sessions, s)
             IN /\ \E m \in 1..Len(sess_state'.sessions) :
                     sess_state'.sessions[m].session_id = s.session_id
                /\ t.start_time = s.start_time
                /\ t.total_turns >= s.total_turns
                /\ t.total_calls >= s.total_calls
                /\ t.total_prompt_tokens >= s.total_prompt_tokens
                /\ t.total_completion_tokens >= s.total_completion_tokens
                /\ t.total_cached_tokens >= s.total_cached_tokens
                /\ t.total_duration_ms >= s.total_duration_ms
                /\ IsPrefix(s.models_used, t.models_used)
                /\ \A j, k \in 1..Len(t.models_used) :
                     t.models_used[j] = t.models_used[k] => j = k ]_vars

\* the timestamp of the last line of the file that has one, NoTime if none has
LastTimestamp(lines) ==
    LET at == { k \in 1..Len(lines) : lines[k].ts # NoTime }
    IN IF at = {} THEN NoTime
       ELSE lines[CHOOSE k \in at : \A j \in at : j <= k].ts

\* C26: every session parse_sessions returns has an end time: the one the
\* loop left when telemetry had set it, the timestamp of the last line of
\* the file that has one otherwise.
C26_EndTimeBackfilled ==
    pc = "sessions_done" =>
       /\ Len(result) = Len(sess_state.sessions)
       /\ \A n \in 1..Len(result) :
            /\ result[n].end_time # NoTime
            /\ result[n].end_time =
                 (IF sess_state.sessions[n].end_time # NoTime
                  THEN sess_state.sessions[n].end_time
                  ELSE LastTimestamp(files[path]))
            /\ [result[n] EXCEPT !.end_time = NoTime]
                 = [sess_state.sessions[n] EXCEPT !.end_time = NoTime]

\* C26: a session with the end time of its telemetry and a session filled
\* in from a later line that belongs to no session were returned
C26_Witness ==
    /\ pc = "sessions_done"
    /\ Len(result) = 2
    /\ \E n \in 1..2 :
         /\ sess_state.sessions[n].end_time # NoTime
         /\ result[n].end_time < LastTimestamp(files[path])
    /\ \E n \in 1..2 :
         /\ sess_state.sessions[n].end_time = NoTime
         /\ result[n].end_time = 99
    /\ files[path][Len(files[path])].kind = "other"
====
